---- MODULE Spec2Model ----
(***************************************************************************)
(* Model of the ZeitDao ink! contract (src/lib.rs): the storage struct,    *)
(* the constructor, the propose / vote messages, the read-only messages    *)
(* and the private guards they call.  One action per message; each call    *)
(* records its arguments and its result in `call`.                         *)
(***************************************************************************)
EXTENDS Integers, Sequences, FiniteSets, TLC

\* ------------------------------------------------------------------ bounds
MaxMembers == 2
MaxProposals == 2

\* `len() as u32`: the cast keeps every length below 2^32, and the lengths
\* here are bounded by MaxMembers and MaxProposals, so it keeps the value
as_u32(n) == n

\* AccountId values that can be the caller or be listed as members
Accounts == {"A", "B"}

\* StorableRuntimeAction values (selector RemarkWithEvent, two payloads)
Actions == {"remark_x", "remark_y"}

\* sequences over S of length at most n
SeqsUpTo(S, n) == UNION {[1..k -> S] : k \in 0..n}

\* proposal ids passed to vote / proposal: in range, one past the end, beyond
Ids == 0..MaxProposals

VARIABLES
    status,     \* "undeployed" | "live" | "panicked" (constructor aborted)
    members,    \* ZeitDao.members   : Vec<AccountId>
    votes,      \* ZeitDao.votes     : Mapping<(AccountId, u32), bool>
    quorum,     \* ZeitDao.quorum    : u32
    proposals,  \* ZeitDao.proposals : Vec<StorableRuntimeAction>
    call,       \* the last call: its message, arguments and result
    given,      \* the arguments the constructor was called with
    returned    \* the indices returned by the successful proposes, in order

storage == <<members, votes, quorum, proposals>>
vars == <<status, members, votes, quorum, proposals, call, given, returned>>

\* Result<T, ZeitDAOError>
Ok(v) == <<"Ok", v>>
Err(e) == <<"Err", e>>
IsOk(r) == r[1] = "Ok"

\* Mapping::default(): no key is present
Mapping_default == [k \in {} |-> FALSE]

\* insert that keeps the value of a key already present
insert_if_absent(m, key, value) ==
    [k \in (DOMAIN m) \cup {key} |-> IF k \in DOMAIN m THEN m[k] ELSE value]

\* insert that drops every other key
insert_replaces_all(m, key, value) == [k \in {key} |-> value]

\* Mapping::insert: the value at key is (over)written
insert(m, key, value) ==
    [k \in (DOMAIN m) \cup {key} |-> IF k = key THEN value ELSE m[k]]

\* Vec::contains: linear scan for an element equal to x
RECURSIVE contains(_, _)
contains(v, x) ==
    IF v = <<>> THEN FALSE
    ELSE IF Head(v) = x THEN TRUE
    ELSE contains(Tail(v), x)

Init ==
    /\ status = "undeployed"
    /\ members = <<>>
    /\ votes = Mapping_default
    /\ quorum = 0
    /\ proposals = <<>>
    /\ call = [op |-> "none"]
    /\ given = [quorum |-> 0, members |-> <<>>]
    /\ returned = <<>>

\* new with the quorum test written >= instead of >
new_rejects_equal(_quorum, _members) ==
    /\ status = "undeployed"
    /\ given' = [quorum |-> _quorum, members |-> _members]
    /\ IF _quorum >= as_u32(Len(_members))
       THEN /\ status' = "panicked"
            /\ call' = [op |-> "new", result |-> <<"Panic">>]
            /\ UNCHANGED storage
       ELSE /\ status' = "live"
            /\ members' = _members
            /\ votes' = Mapping_default
            /\ proposals' = <<>>
            /\ quorum' = _quorum
            /\ call' = [op |-> "new", result |-> <<"Ok">>]
    /\ UNCHANGED returned

\* new accepting a quorum one above the number of members
new_allows_one_more(_quorum, _members) ==
    /\ status = "undeployed"
    /\ given' = [quorum |-> _quorum, members |-> _members]
    /\ IF _quorum > as_u32(Len(_members)) + 1
       THEN /\ status' = "panicked"
            /\ call' = [op |-> "new", result |-> <<"Panic">>]
            /\ UNCHANGED storage
       ELSE /\ status' = "live"
            /\ members' = _members
            /\ votes' = Mapping_default
            /\ proposals' = <<>>
            /\ quorum' = _quorum
            /\ call' = [op |-> "new", result |-> <<"Ok">>]
    /\ UNCHANGED returned

\* ZeitDao::new
new(_quorum, _members) ==
    /\ status = "undeployed"
    /\ given' = [quorum |-> _quorum, members |-> _members]
    /\ IF _quorum > as_u32(Len(_members))
       THEN /\ status' = "panicked"
            /\ call' = [op |-> "new", result |-> <<"Panic">>]
            /\ UNCHANGED storage
       ELSE /\ status' = "live"
            /\ members' = _members
            /\ votes' = Mapping_default
            /\ proposals' = <<>>
            /\ quorum' = _quorum
            /\ call' = [op |-> "new", result |-> <<"Ok">>]
    /\ UNCHANGED returned

\* is_member comparing the caller with the first member only
is_member_first_only(caller) == members # <<>> /\ Head(members) = caller

\* ZeitDao::is_member (the caller is env().caller())
is_member(caller) == contains(members, caller)

\* only_member with the test inverted
only_member_inverted(caller) ==
    IF is_member(caller) THEN Err("OnlyMemberAllowed") ELSE Ok("unit")

\* ZeitDao::only_member
only_member(caller) ==
    IF ~is_member(caller) THEN Err("OnlyMemberAllowed") ELSE Ok("unit")

\* check_proposal_exists with < instead of <=
check_proposal_exists_lt(id) ==
    IF as_u32(Len(proposals)) < id THEN Err("ProposalDoesNotExist") ELSE Ok("unit")

\* check_proposal_exists with the bound test left out
check_proposal_exists_never(id) == Ok("unit")

\* ZeitDao::check_proposal_exists
check_proposal_exists(id) ==
    IF as_u32(Len(proposals)) <= id THEN Err("ProposalDoesNotExist") ELSE Ok("unit")

\* propose returning the length after the push, without the - 1
propose_returns_len(caller, action) ==
    /\ status = "live"
    /\ IF ~IsOk(only_member(caller))
       THEN /\ call' = [op |-> "propose", caller |-> caller, action |-> action,
                        result |-> only_member(caller)]
            /\ UNCHANGED <<storage, returned>>
       ELSE /\ Len(proposals) < MaxProposals
            /\ proposals' = Append(proposals, action)
            /\ call' = [op |-> "propose", caller |-> caller, action |-> action,
                        result |-> Ok(as_u32(Len(proposals')))]
            /\ returned' = Append(returned, as_u32(Len(proposals')))
            /\ UNCHANGED <<members, votes, quorum>>
    /\ UNCHANGED <<status, given>>

\* propose putting the action at the front of the log
propose_prepends(caller, action) ==
    /\ status = "live"
    /\ IF ~IsOk(only_member(caller))
       THEN /\ call' = [op |-> "propose", caller |-> caller, action |-> action,
                        result |-> only_member(caller)]
            /\ UNCHANGED <<storage, returned>>
       ELSE /\ Len(proposals) < MaxProposals
            /\ proposals' = <<action>> \o proposals
            /\ call' = [op |-> "propose", caller |-> caller, action |-> action,
                        result |-> Ok(as_u32(Len(proposals')) - 1)]
            /\ returned' = Append(returned, as_u32(Len(proposals')) - 1)
            /\ UNCHANGED <<members, votes, quorum>>
    /\ UNCHANGED <<status, given>>

\* propose that also records an aye of the proposer on the new proposal
propose_auto_aye(caller, action) ==
    /\ status = "live"
    /\ IF ~IsOk(only_member(caller))
       THEN /\ call' = [op |-> "propose", caller |-> caller, action |-> action,
                        result |-> only_member(caller)]
            /\ UNCHANGED <<storage, returned>>
       ELSE /\ Len(proposals) < MaxProposals
            /\ proposals' = Append(proposals, action)
            /\ votes' = insert(votes, <<caller, Len(proposals)>>, TRUE)
            /\ call' = [op |-> "propose", caller |-> caller, action |-> action,
                        result |-> Ok(as_u32(Len(proposals')) - 1)]
            /\ returned' = Append(returned, as_u32(Len(proposals')) - 1)
            /\ UNCHANGED <<members, quorum>>
    /\ UNCHANGED <<status, given>>

\* ZeitDao::propose
propose(caller, action) ==
    /\ status = "live"
    /\ IF ~IsOk(only_member(caller))
       THEN /\ call' = [op |-> "propose", caller |-> caller, action |-> action,
                        result |-> only_member(caller)]
            /\ UNCHANGED <<storage, returned>>
       ELSE /\ Len(proposals) < MaxProposals
            /\ proposals' = Append(proposals, action)
            /\ call' = [op |-> "propose", caller |-> caller, action |-> action,
                        result |-> Ok(as_u32(Len(proposals')) - 1)]
            /\ returned' = Append(returned, as_u32(Len(proposals')) - 1)
            /\ UNCHANGED <<members, votes, quorum>>
    /\ UNCHANGED <<status, given>>

\* vote with its two checks in the other order
vote_checks_swapped(caller, id, direction) ==
    /\ status = "live"
    /\ IF ~IsOk(check_proposal_exists(id))
       THEN /\ call' = [op |-> "vote", caller |-> caller, id |-> id,
                        direction |-> direction, result |-> check_proposal_exists(id)]
            /\ UNCHANGED storage
       ELSE IF ~IsOk(only_member(caller))
       THEN /\ call' = [op |-> "vote", caller |-> caller, id |-> id,
                        direction |-> direction, result |-> only_member(caller)]
            /\ UNCHANGED storage
       ELSE /\ votes' = insert(votes, <<caller, id>>, direction)
            /\ call' = [op |-> "vote", caller |-> caller, id |-> id,
                        direction |-> direction, result |-> Ok("unit")]
            /\ UNCHANGED <<members, quorum, proposals>>
    /\ UNCHANGED <<status, given, returned>>

\* vote that refuses a second ballot of the same member on a proposal
vote_rejects_revote(caller, id, direction) ==
    /\ status = "live"
    /\ IF ~IsOk(only_member(caller))
       THEN /\ call' = [op |-> "vote", caller |-> caller, id |-> id,
                        direction |-> direction, result |-> only_member(caller)]
            /\ UNCHANGED storage
       ELSE IF ~IsOk(check_proposal_exists(id)) \/ <<caller, id>> \in DOMAIN votes
       THEN /\ call' = [op |-> "vote", caller |-> caller, id |-> id,
                        direction |-> direction, result |-> Err("ProposalDoesNotExist")]
            /\ UNCHANGED storage
       ELSE /\ votes' = insert(votes, <<caller, id>>, direction)
            /\ call' = [op |-> "vote", caller |-> caller, id |-> id,
                        direction |-> direction, result |-> Ok("unit")]
            /\ UNCHANGED <<members, quorum, proposals>>
    /\ UNCHANGED <<status, given, returned>>

\* ZeitDao::vote
vote(caller, id, direction) ==
    /\ status = "live"
    /\ IF ~IsOk(only_member(caller))
       THEN /\ call' = [op |-> "vote", caller |-> caller, id |-> id,
                        direction |-> direction, result |-> only_member(caller)]
            /\ UNCHANGED storage
       ELSE IF ~IsOk(check_proposal_exists(id))
       THEN /\ call' = [op |-> "vote", caller |-> caller, id |-> id,
                        direction |-> direction, result |-> check_proposal_exists(id)]
            /\ UNCHANGED storage
       ELSE /\ votes' = insert(votes, <<caller, id>>, direction)
            /\ call' = [op |-> "vote", caller |-> caller, id |-> id,
                        direction |-> direction, result |-> Ok("unit")]
            /\ UNCHANGED <<members, quorum, proposals>>
    /\ UNCHANGED <<status, given, returned>>

\* collect that drops an element equal to an earlier one
collect_dedup(v) ==
    LET keep == {i \in 1..Len(v) : \A j \in 1..(i - 1) : v[j] # v[i]}
        nth(k) == CHOOSE i \in keep : Cardinality({j \in keep : j < i}) = k - 1
    IN [k \in 1..Cardinality(keep) |-> v[nth(k)]]

\* the iterator chain of ZeitDao::members: a clone of every element, in order
collect(v) == [i \in 1..Len(v) |-> v[i]]

\* ZeitDao::members (the message; `members` names the storage field)
members_msg ==
    /\ status = "live"
    /\ call' = [op |-> "members", result |-> collect(members)]
    /\ UNCHANGED <<status, storage, given, returned>>

\* ZeitDao::is_member as a message
is_member_msg(caller) ==
    /\ status = "live"
    /\ call' = [op |-> "is_member", caller |-> caller, result |-> is_member(caller)]
    /\ UNCHANGED <<status, storage, given, returned>>

\* the value ZeitDao::proposal returns: None while len >= id, otherwise the
\* element at id, an index past the end of the Vec, which panics
proposal_value(id) ==
    IF Len(proposals) >= id
    THEN <<"None">>
    ELSE IF id + 1 \in DOMAIN proposals
         THEN <<"Some", proposals[id + 1]>>
         ELSE <<"Panic">>

\* ZeitDao::proposal
proposal(id) ==
    /\ status = "live"
    /\ call' = [op |-> "proposal", id |-> id, result |-> proposal_value(id)]
    /\ UNCHANGED <<status, storage, given, returned>>

\* the messages the contract exports (#[ink(message)])
Messages ==
    {"test_event", "test_asset_manager", "propose", "vote",
     "members", "is_member", "proposal"}

\* a call of a selector the contract does not export: the generated
\* dispatcher fails on the selector, before it decodes any argument; the call
\* traps and storage is untouched
dispatch_unknown(selector) ==
    /\ status = "live"
    /\ selector \notin Messages
    /\ call' = [op |-> selector, result |-> <<"Trap", "UnknownSelector">>]
    /\ UNCHANGED <<status, storage, given, returned>>

\* env().account_id(): the contract's own account
account_id == "Z"

\* u128 amounts passed to distribute
Balances == {1, 2}

\* what env().call_runtime returns: Ok(()), or an ink::env::Error, which is
\* CallRuntimeFailed or any other variant (Unknown stands for the others)
RuntimeOutcomes == {"Ok", "CallRuntimeFailed", "Unknown"}

\* RuntimeCall::AssetManager(AssetManagerCall::Transfer { dest, currency_id: Ztg, amount })
Transfer(dest, amount) == <<"AssetManager", "Transfer", dest, "Ztg", amount>>

\* impl From<EnvError> for ZeitDAOError: every variant but CallRuntimeFailed panics
from_EnvError(e) ==
    IF e = "CallRuntimeFailed" THEN Err("CallRuntimeFailed") ELSE <<"Panic">>

\* .map_err(Into::into) on the result of call_runtime
map_err_into(outcome) ==
    IF outcome = "Ok" THEN Ok("unit") ELSE from_EnvError(outcome)

\* only_self with the test inverted
only_self_inverted(caller) ==
    IF caller = account_id THEN Err("OnlySelfAllowed") ELSE Ok("unit")

\* ZeitDao::only_self
only_self(caller) ==
    IF caller # account_id THEN Err("OnlySelfAllowed") ELSE Ok("unit")

\* ZeitDao::test_asset_manager: asks the runtime to transfer 10_000_000_000
\* (1 ZTG) to the caller; `outcome` is what call_runtime returns
test_asset_manager(caller, outcome) ==
    /\ status = "live"
    /\ call' = [op |-> "test_asset_manager", caller |-> caller,
                request |-> Transfer(caller, "10_000_000_000"),
                runtime |-> outcome, result |-> map_err_into(outcome)]
    /\ UNCHANGED <<status, storage, given, returned>>

\* ZeitDao::distribute; `outcome` is what call_runtime returns when it is called
distribute(caller, balance, target, outcome) ==
    /\ status = "live"
    /\ IF ~IsOk(only_self(caller))
       THEN call' = [op |-> "distribute", caller |-> caller, balance |-> balance,
                     target |-> target, request |-> <<>>, runtime |-> "none",
                     result |-> only_self(caller)]
       ELSE call' = [op |-> "distribute", caller |-> caller, balance |-> balance,
                     target |-> target, request |-> Transfer(target, balance),
                     runtime |-> outcome, result |-> map_err_into(outcome)]
    /\ UNCHANGED <<status, storage, given, returned>>

\* ------------------------------------------------------------------ claims
\* the set of identities listed in the membership sequence
MemberSet == {members[i] : i \in 1..Len(members)}

\* an error result carrying e
IsErr(r, e) == r[1] = "Err" /\ r[2] = e

\* C1: construction aborts, creating no instance, exactly when quorum >
\* members.len(); otherwise it yields the given members and quorum, an empty
\* proposal log and an empty ballot table.
C1_NewChecksQuorum ==
    /\ call.op = "new" =>
         IF given.quorum > Len(given.members)
         THEN status = "panicked" /\ call.result = <<"Panic">>
         ELSE /\ status = "live"
              /\ call.result = <<"Ok">>
              /\ members = given.members
              /\ quorum = given.quorum
              /\ proposals = <<>>
              /\ DOMAIN votes = {}
    /\ status = "panicked" => call.op = "new" /\ given.quorum > Len(given.members)
    /\ status = "live" => given.quorum <= Len(given.members)

C1_Witness ==
    /\ call.op = "new"
    /\ status = "panicked"
    /\ given.quorum = Len(given.members) + 1
    /\ Len(given.members) = 2

\* C2: a successful propose returns the length of the log before the call and
\* appends exactly the given action; the successful proposes return 0, 1, 2,
\* ... without gap or repeat, whatever happens in between.
C2_ProposeDense ==
    /\ [][(call'.op = "propose" /\ IsOk(call'.result)) =>
            /\ call'.result[2] = Len(proposals)
            /\ proposals' = Append(proposals, call'.action)
            /\ returned' = Append(returned, call'.result[2])]_vars
    /\ [](/\ returned = [i \in 1..Len(returned) |-> i - 1]
          /\ Len(returned) = Len(proposals))

C2_Witness ==
    /\ call.op = "propose"
    /\ IsOk(call.result)
    /\ call.result[2] = 1
    /\ returned = <<0, 1>>
    /\ proposals[2] = call.action
    /\ proposals[1] # proposals[2]
    /\ DOMAIN votes # {}

\* C3: propose by an identity outside the membership sequence returns
\* Err(OnlyMemberAllowed) and changes no state: no index is consumed.
C3_ProposeNonMember ==
    [][(call'.op = "propose" /\ call'.caller \notin MemberSet) =>
         /\ IsErr(call'.result, "OnlyMemberAllowed")
         /\ UNCHANGED <<status, storage, returned>>]_vars

C3_Witness ==
    /\ call.op = "propose"
    /\ call.caller \notin MemberSet
    /\ IsErr(call.result, "OnlyMemberAllowed")
    /\ Len(proposals) = 1
    /\ returned = <<0>>

\* C4: vote tests membership first and the index second: a non-member gets
\* OnlyMemberAllowed whatever the index, a member with an index past the log
\* gets ProposalDoesNotExist, a member with an index in the log gets Ok.
C4_VoteCheckOrder ==
    call.op = "vote" =>
        IF call.caller \notin MemberSet
        THEN IsErr(call.result, "OnlyMemberAllowed")
        ELSE IF call.id >= Len(proposals)
        THEN IsErr(call.result, "ProposalDoesNotExist")
        ELSE IsOk(call.result)

C4_Witness ==
    /\ call.op = "vote"
    /\ call.caller \notin MemberSet
    /\ call.id >= Len(proposals)
    /\ Len(proposals) > 0
    /\ IsErr(call.result, "OnlyMemberAllowed")

\* C5 as stated: a vote on an index past the log fails with
\* ProposalDoesNotExist for every caller, member or not.
C5_OutOfRangeAnyCaller ==
    (call.op = "vote" /\ call.id >= Len(proposals)) =>
        IsErr(call.result, "ProposalDoesNotExist")

\* C5 amended: a vote on an index past the log always fails, with
\* ProposalDoesNotExist for a member and OnlyMemberAllowed for a non-member.
C5_OutOfRangeByCaller ==
    (call.op = "vote" /\ call.id >= Len(proposals)) =>
        /\ ~IsOk(call.result)
        /\ call.caller \in MemberSet => IsErr(call.result, "ProposalDoesNotExist")
        /\ call.caller \notin MemberSet => IsErr(call.result, "OnlyMemberAllowed")

C5_Witness ==
    /\ call.op = "vote"
    /\ call.caller \in MemberSet
    /\ Len(proposals) > 0
    /\ call.id = Len(proposals)
    /\ IsErr(call.result, "ProposalDoesNotExist")

\* C6: a successful vote(id, d) by m leaves d as the one ballot of (m, id),
\* whatever was there; a vote on a ballot already cast never fails; and
\* voting the value the ballot already has changes nothing.
C6_VoteOverwrites ==
    /\ [](call.op = "vote" /\ IsOk(call.result) =>
            /\ <<call.caller, call.id>> \in DOMAIN votes
            /\ votes[<<call.caller, call.id>>] = call.direction)
    /\ [][call'.op = "vote" =>
            LET key == <<call'.caller, call'.id>> IN
            /\ key \in DOMAIN votes => IsOk(call'.result)
            /\ IsOk(call'.result) => DOMAIN votes' = (DOMAIN votes) \cup {key}
            /\ (key \in DOMAIN votes /\ votes[key] = call'.direction) =>
                 votes' = votes]_vars

C6_Witness ==
    /\ call.op = "vote"
    /\ IsOk(call.result)
    /\ call.direction = FALSE
    /\ votes[<<call.caller, call.id>>] = FALSE
    /\ \E k \in DOMAIN votes : votes[k] = TRUE

\* the number of entries of the membership sequence whose ballot for id is aye
AyeTally(id) ==
    Cardinality({i \in 1..Len(members) :
                    /\ <<members[i], id>> \in DOMAIN votes
                    /\ votes[<<members[i], id>>]})

\* C7: execute(id) on an existing proposal succeeds when the aye tally
\* reaches the quorum and fails with NotEnoughVotesApproved when it does not:
\* a call of execute ends in Ok if some existing proposal has the quorum and
\* in NotEnoughVotesApproved if some existing proposal lacks it.
C7_ExecuteGatedByQuorum ==
    call.op = "execute" =>
        \A id \in 0..(Len(proposals) - 1) :
            IF AyeTally(id) >= quorum
            THEN IsOk(call.result)
            ELSE IsErr(call.result, "NotEnoughVotesApproved")

\* C8: members() returns the sequence given to the constructor, in order and
\* with its duplicates, and no call changes the membership sequence.
C8_MembersAsConstructed ==
    /\ status = "live" => members = given.members
    /\ call.op = "members" => call.result = given.members

C8_Witness ==
    /\ call.op = "members"
    /\ Len(given.members) = 2
    /\ given.members[1] = given.members[2]
    /\ call.result = given.members
    /\ Len(proposals) = 2
    /\ DOMAIN votes # {}

\* C9: is_member() is true exactly when the caller equals an element of the
\* membership sequence, for every caller and sequence, and changes no state.
C9_IsMemberIffListed ==
    /\ [](/\ call.op = "is_member" => (call.result <=> call.caller \in MemberSet)
          /\ status = "live" =>
               \A c \in Accounts : is_member(c) <=> \E i \in 1..Len(members) : members[i] = c)
    /\ [][call'.op = "is_member" => UNCHANGED <<status, storage, given, returned>>]_vars

C9_Witness ==
    /\ call.op = "is_member"
    /\ call.result = TRUE
    /\ Len(members) = 2
    /\ members[1] # call.caller
    /\ members[2] = call.caller

\* C10: proposal(id) returns the action stored at id when id is below the
\* number of proposals, and None otherwise.
C10_ProposalQuery ==
    call.op = "proposal" =>
        IF call.id < Len(proposals)
        THEN call.result = <<"Some", proposals[call.id + 1]>>
        ELSE call.result = <<"None">>

\* C11: the queries members(), is_member() and proposal(id) return a value,
\* for every caller and every id, without aborting.
C11_QueriesNeverFail ==
    /\ call.op = "members" => call.result \in Seq(Accounts)
    /\ call.op = "is_member" => call.result \in BOOLEAN
    /\ call.op = "proposal" => call.result[1] \in {"None", "Some"}

\* C12: the proposal log is append-only: no step shortens it or changes an
\* entry it holds, and an index returned by propose is never returned again.
C12_LogAppendOnly ==
    /\ [][/\ Len(proposals') >= Len(proposals)
          /\ \A i \in 1..Len(proposals) : proposals'[i] = proposals[i]
          /\ \A i \in 1..Len(returned) :
                /\ Len(returned') >= i
                /\ returned'[i] = returned[i]]_vars
    /\ [](\A i, j \in 1..Len(returned) : returned[i] = returned[j] => i = j)

C12_Witness ==
    /\ Len(proposals) = 2
    /\ proposals[1] # proposals[2]
    /\ returned = <<0, 1>>
    /\ call.op = "vote"
    /\ IsOk(call.result)
    /\ call.id = 0

\* C13: propose casts no vote: it leaves the ballot table as it was, and right
\* after a successful propose nobody has a ballot at the index it returned.
C13_ProposeCastsNoVote ==
    /\ [][call'.op = "propose" => votes' = votes]_vars
    /\ [](call.op = "propose" /\ IsOk(call.result) =>
            \A c \in Accounts : <<c, call.result[2]>> \notin DOMAIN votes)

C13_Witness ==
    /\ call.op = "propose"
    /\ IsOk(call.result)
    /\ call.result[2] = 1
    /\ <<call.caller, 0>> \in DOMAIN votes
    /\ votes[<<call.caller, 0>>] = TRUE
    /\ <<call.caller, 1>> \notin DOMAIN votes

\* C14: proposals never close: in every state, for every member m, every
\* existing index id and either direction d, vote(m, id, d) can be called and
\* returns Ok.
C14_VoteAlwaysOpen ==
    status = "live" =>
        \A m \in MemberSet, id \in 0..(Len(proposals) - 1), d \in BOOLEAN :
            /\ ENABLED vote(m, id, d)
            /\ ~ENABLED (vote(m, id, d) /\ ~IsOk(call'.result))

C14_Witness ==
    /\ Cardinality(MemberSet) = 2
    /\ Len(proposals) = 2
    /\ \A m \in MemberSet, id \in 0..1 : <<m, id>> \in DOMAIN votes
    /\ call.op = "vote"
    /\ IsOk(call.result)

\* C15: distribute is self-only: a caller other than the contract's own
\* account gets Err(OnlySelfAllowed) and no request reaches the runtime; the
\* transfer of balance to target is requested only for the contract itself.
C15_DistributeSelfOnly ==
    call.op = "distribute" =>
        IF call.caller # account_id
        THEN /\ IsErr(call.result, "OnlySelfAllowed")
             /\ call.request = <<>>
             /\ call.runtime = "none"
        ELSE /\ call.request = Transfer(call.target, call.balance)
             /\ ~IsErr(call.result, "OnlySelfAllowed")

C15_Witness ==
    /\ call.op = "distribute"
    /\ call.caller \in MemberSet
    /\ call.caller # account_id
    /\ IsErr(call.result, "OnlySelfAllowed")
    /\ call.request = <<>>

\* C16: every failure of the runtime call made by distribute or
\* test_asset_manager comes back as Err(CallRuntimeFailed), whatever error the
\* runtime reports: never Ok, never an abort.
C16_RuntimeFailureIsTypedErr ==
    (call.op \in {"distribute", "test_asset_manager"}
        /\ call.runtime \notin {"none", "Ok"}) =>
        IsErr(call.result, "CallRuntimeFailed")

\* C17: every ballot belongs to a listed member and to a proposal of the log.
C17_BallotKeysValid ==
    \A k \in DOMAIN votes : k[1] \in MemberSet /\ k[2] < Len(proposals)

C17_Witness ==
    /\ Cardinality(MemberSet) = 2
    /\ Len(proposals) = 2
    /\ Cardinality(DOMAIN votes) = 4

\* C18: a successful vote(id, d) by m changes the entry (m, id) and nothing
\* else of the storage; a vote that returns an error changes nothing.
C18_VoteFrame ==
    [][call'.op = "vote" =>
         LET key == <<call'.caller, call'.id>> IN
         IF IsOk(call'.result)
         THEN /\ \A k \in (DOMAIN votes) \ {key} :
                    k \in DOMAIN votes' /\ votes'[k] = votes[k]
              /\ DOMAIN votes' \subseteq (DOMAIN votes) \cup {key}
              /\ UNCHANGED <<status, members, quorum, proposals>>
         ELSE UNCHANGED <<status, storage>>]_vars

C18_Witness ==
    /\ call.op = "vote"
    /\ IsOk(call.result)
    /\ Cardinality(DOMAIN votes) = 3
    /\ \E k \in DOMAIN votes : votes[k] # call.direction

\* C19: the quorum stays the one given to the constructor and stays between 0
\* and the number of members, in every state.
C19_QuorumFixed ==
    /\ status = "live" =>
         /\ quorum = given.quorum
         /\ 0 <= quorum
         /\ quorum <= Len(members)
    /\ status = "undeployed" => quorum = 0

C19_Witness ==
    /\ status = "live"
    /\ quorum = 2
    /\ Len(members) = 2
    /\ Len(proposals) = 2
    /\ DOMAIN votes # {}

Next ==
    \/ \E q \in 0..(MaxMembers + 1), ms \in SeqsUpTo(Accounts, MaxMembers) : new(q, ms)
    \/ \E c \in Accounts, a \in Actions : propose(c, a)
    \/ \E c \in Accounts, id \in Ids, d \in BOOLEAN : vote(c, id, d)
    \/ members_msg
    \/ \E c \in Accounts : is_member_msg(c)
    \/ \E id \in Ids : proposal(id)
    \/ dispatch_unknown("execute")
    \/ \E c \in Accounts, o \in RuntimeOutcomes : test_asset_manager(c, o)
    \/ \E c \in Accounts \cup {account_id}, b \in Balances, t \in Accounts,
          o \in RuntimeOutcomes : distribute(c, b, t, o)

Spec == Init /\ [][Next]_vars
====
